---- MODULE Spec2Model ----
(***************************************************************************)
(* Model of stratokit's RDS helper (src/stratokit/AWS/rds/main.py).        *)
(*                                                                         *)
(* A caller invokes the public methods of class RDS one after the other    *)
(* (the class is synchronous and single threaded).  Every method is a      *)
(* fixed sequence of remote calls on the boto3 client; the three private   *)
(* waiters are describe/sleep loops.  The remote control plane is opaque:  *)
(* every remote call either raises or is accepted, and every describe      *)
(* call raises or returns a list of resource descriptions.                 *)
(*                                                                         *)
(* Identifiers are sequences of one-character strings so that the          *)
(* formatting of the generated instance name can be checked.               *)
(***************************************************************************)
EXTENDS Integers, Sequences, FiniteSets, TLC

VARIABLES run, op, todo, state, calls, polls, clock, instance_name,
          result, raised, remote, observed

vars == <<run, op, todo, state, calls, polls, clock, instance_name,
          result, raised, remote, observed>>

----------------------------------------------------------------------------
(* Bounds of the model *)

\* describe polls the model follows in one session of the caller
MaxPolls == 3
\* operations the caller invokes in one session
MaxOps == 2

----------------------------------------------------------------------------
(* Inputs *)

DbClusterIds == { <<"d", "b">>, <<"a", "-", "1">> }
SnapshotIds == { <<"s", "1">>, <<"s", "2">> }
None == <<>>
AccountIds == { <<"9", "9">> }
KmsKeyIds == { <<"k">> }

\* status strings the control plane may report
Statuses == { "creating", "available", "Available", "failed" }

HexDigits ==
  <<"0", "1", "2", "3", "4", "5", "6", "7", "8", "9", "a", "b", "c", "d", "e", "f">>

\* seeds standing for the random source of uuid.uuid4()
UuidSeeds == { 3, 7 }

\* uuid.uuid4().hex : 32 lower-case hexadecimal characters
uuid4_hex(seed) == [i \in 1..32 |-> HexDigits[((seed * i + (i \div 3)) % 16) + 1]]

\* time.sleep(60)
SleepInterval == 60

----------------------------------------------------------------------------
(* Remote control plane *)

\* what a remote call can do: raise, or return a list of descriptions
Accepted == [err |-> FALSE, list |-> <<>>]
Raises == [err |-> TRUE, list |-> <<>>]
Outcomes == { Accepted, Raises }

\* describe_db_cluster_snapshots / describe_db_clusters: entries carry 'Status'
DescribeStatusOutcomes ==
  { Raises, Accepted }
    \cup { [err |-> FALSE, list |-> << [Status |-> s] >>] : s \in Statuses }
    \cup { [err |-> FALSE, list |-> << [Status |-> "creating"], [Status |-> "available"] >>],
           [err |-> FALSE, list |-> << [Status |-> "available"], [Status |-> "failed"] >>] }

\* describe_db_instances: entries carry 'DBInstanceStatus'
DescribeInstanceOutcomes ==
  { Raises, Accepted }
    \cup { [err |-> FALSE, list |-> << [DBInstanceStatus |-> s] >>] : s \in Statuses }
    \cup { [err |-> FALSE, list |-> << [DBInstanceStatus |-> "creating"], [DBInstanceStatus |-> "available"] >>],
           [err |-> FALSE, list |-> << [DBInstanceStatus |-> "available"], [DBInstanceStatus |-> "failed"] >>] }

\* the resource an accepted mutating request creates or removes
RemoteEffect(r, ev) ==
  CASE ev.resp.err -> r
    [] ev.call = "create_db_cluster_snapshot" ->
         r \cup { [kind |-> "snapshot", id |-> ev.params.DBClusterSnapshotIdentifier] }
    [] ev.call = "restore_db_cluster_from_snapshot" ->
         r \cup { [kind |-> "cluster", id |-> ev.params.DBClusterIdentifier] }
    [] ev.call = "create_db_instance" ->
         r \cup { [kind |-> "instance", id |-> ev.params.DBInstanceIdentifier] }
    [] ev.call = "delete_db_instance" ->
         r \ { [kind |-> "instance", id |-> ev.params.DBInstanceIdentifier] }
    [] ev.call = "delete_db_cluster" ->
         r \ { [kind |-> "cluster", id |-> ev.params.DBClusterIdentifier] }
    [] OTHER -> r

----------------------------------------------------------------------------
(* Fixed inputs of the restore operation that do not steer control flow *)

Engine == <<"p", "g">>
InstanceClass == <<"r", "5">>
SubnetGroup == <<"s", "n">>
SecurityGroupIds == << <<"s", "g">> >>

----------------------------------------------------------------------------
(* Bodies of the public methods: the remote steps each one performs, in    *)
(* program order.  A step named after a private method is that method.     *)

\* create_db_instance: create the instance, then wait for it
create_db_instance_body ==
  << "create_db_instance", "_is_instance_available" >>

\* create_rds_cluster_snapshot: create, wait, share when an account is given
create_rds_cluster_snapshot_body(args) ==
  << "create_db_cluster_snapshot", "_is_cluster_snapshot_ready" >>
    \o (IF args.snapshot_shared_account # None THEN << "_share_rds_snapshot" >> ELSE << >>)

\* a restore that first waits for its snapshot, as one chained sequence would
restore_body_waiting_for_snapshot(args) ==
  << "_is_cluster_snapshot_ready", "restore_db_cluster_from_snapshot", "_is_cluster_restored" >>
    \o (IF args.reset_master_password THEN << "modify_db_cluster" >> ELSE << >>)
    \o create_db_instance_body

\* a restore that rotates the credentials after the instance was created
restore_body_rotating_last(args) ==
  << "restore_db_cluster_from_snapshot", "_is_cluster_restored" >>
    \o create_db_instance_body
    \o (IF args.reset_master_password THEN << "modify_db_cluster" >> ELSE << >>)

\* a restore that rotates the credentials before the cluster is ready
restore_body_rotating_before_wait(args) ==
  << "restore_db_cluster_from_snapshot" >>
    \o (IF args.reset_master_password THEN << "modify_db_cluster" >> ELSE << >>)
    \o << "_is_cluster_restored" >>
    \o create_db_instance_body

\* restore_rds_cluster_from_snapshot: restore, wait, rotate when asked,
\* then the body of create_db_instance
restore_rds_cluster_from_snapshot_body(args) ==
  << "restore_db_cluster_from_snapshot", "_is_cluster_restored" >>
    \o (IF args.reset_master_password THEN << "modify_db_cluster" >> ELSE << >>)
    \o create_db_instance_body

\* a delete that waits on the instance after the request
delete_db_instance_body_waiting == << "delete_db_instance", "_is_instance_available" >>

delete_db_instance_body == << "delete_db_instance" >>

\* a delete that sends its request a second time
delete_rds_cluster_body_retrying == << "delete_db_cluster", "delete_db_cluster" >>

delete_rds_cluster_body == << "delete_db_cluster" >>

\* find_snapshots_by_partial_name: one listing call, chosen by the cluster flag
find_snapshots_by_partial_name_body(args) ==
  << IF args.cluster THEN "describe_db_cluster_snapshots" ELSE "describe_db_snapshots" >>

Body(name, args) ==
  CASE name = "create_rds_cluster_snapshot" -> create_rds_cluster_snapshot_body(args)
    [] name = "restore_rds_cluster_from_snapshot" -> restore_rds_cluster_from_snapshot_body(args)
    [] name = "create_db_instance" -> create_db_instance_body
    [] name = "delete_db_instance" -> delete_db_instance_body
    [] name = "delete_rds_cluster" -> delete_rds_cluster_body
    [] name = "find_snapshots_by_partial_name" -> find_snapshots_by_partial_name_body(args)

\* share failures re-raised like every other failure
swallows_nothing(step) == FALSE

\* a failed restore request absorbed like a failed share
swallows_restore_too(step) ==
  step \in { "_share_rds_snapshot", "restore_db_cluster_from_snapshot" }

\* a failed credential rotation absorbed like a failed share
swallows_rotation_too(step) ==
  step \in { "_share_rds_snapshot", "modify_db_cluster" }

\* the only except block that does not re-raise is the one of _share_rds_snapshot
Swallows(step) == step = "_share_rds_snapshot"

\* an except block of the restore that removes the cluster before re-raising
except_deleting_cluster(o) ==
  IF o.name = "restore_rds_cluster_from_snapshot"
  THEN << [call |-> "delete_db_cluster",
           params |-> [DBClusterIdentifier |-> o.args.db_cluster_identifier,
                       SkipFinalSnapshot |-> TRUE],
           resp |-> Accepted] >>
  ELSE << >>

\* remote requests issued by the except blocks that log and re-raise: none
except_calls(o) == << >>

\* the parameters of restore_db_cluster_from_snapshot (KmsKeyId only when given)
restore_params(args) ==
  IF args.kms_key_id # None
  THEN [DBClusterIdentifier |-> args.db_cluster_identifier,
        SnapshotIdentifier |-> args.snapshot_identifier,
        DBClusterInstanceClass |-> args.db_cluster_instance_class,
        DBSubnetGroupName |-> args.db_subnet_group,
        VpcSecurityGroupIds |-> args.vpc_security_group_ids,
        Engine |-> args.engine,
        KmsKeyId |-> args.kms_key_id]
  ELSE [DBClusterIdentifier |-> args.db_cluster_identifier,
        SnapshotIdentifier |-> args.snapshot_identifier,
        DBClusterInstanceClass |-> args.db_cluster_instance_class,
        DBSubnetGroupName |-> args.db_subnet_group,
        VpcSecurityGroupIds |-> args.vpc_security_group_ids,
        Engine |-> args.engine]

\* keyword arguments that name the snapshot where the cluster belongs
instance_params_naming_snapshot(o) ==
  IF o.name = "create_db_instance"
  THEN o.args
  ELSE [db_name |-> o.args.snapshot_identifier,
        instance_type |-> o.args.db_cluster_instance_class,
        engine |-> o.args.engine]

\* the keyword arguments restore_rds_cluster_from_snapshot passes to create_db_instance
instance_params(o) ==
  IF o.name = "create_db_instance"
  THEN o.args
  ELSE [db_name |-> o.args.db_cluster_identifier,
        instance_type |-> o.args.db_cluster_instance_class,
        engine |-> o.args.engine]

\* a suffix cut one character short
uuid_hex_of_four(seed) == SubSeq(uuid4_hex(seed), 1, 4)

\* uuid_hex = uuid.uuid4().hex[:5]
uuid_hex(seed) == SubSeq(uuid4_hex(seed), 1, 5)

\* instance_name = f"{db_name}-{uuid_hex}"
format_instance_name(db_name, seed) == db_name \o << "-" >> \o uuid_hex(seed)

\* what the finished method returns
NoValue == [kind |-> "None", value |-> << >>]

ReturnValue(o, inst) ==
  CASE o.name = "restore_rds_cluster_from_snapshot" ->
         [kind |-> "tuple", value |-> << o.args.db_cluster_identifier, inst >>]
    [] o.name = "create_db_instance" -> [kind |-> "str", value |-> << inst >>]
    [] OTHER -> NoValue

----------------------------------------------------------------------------
(* The waiters: what one pass of the loop decides from the describe result *)

Decision(next, error) == [next |-> next, error |-> error]

\* a snapshot waiter that compares the status without regard to case
snapshot_ready_ignoring_case(resp) ==
  IF resp.err THEN Decision("raise", "ClientError")
  ELSE IF resp.list = << >> THEN Decision("raise", "ValueError")
  ELSE IF resp.list[1].Status \in { "available", "Available" } THEN Decision("break", "none")
  ELSE Decision("sleep", "none")

_is_cluster_snapshot_ready(resp) ==
  IF resp.err THEN Decision("raise", "ClientError")
  ELSE IF resp.list = << >> THEN Decision("raise", "ValueError")
  ELSE IF resp.list[1].Status = "available" THEN Decision("break", "none")
  ELSE Decision("sleep", "none")

\* a cluster waiter that decides on the last description of the answer
cluster_restored_reading_last(resp) ==
  IF resp.err THEN Decision("raise", "ClientError")
  ELSE IF resp.list = << >> THEN Decision("raise", "ValueError")
  ELSE IF resp.list[Len(resp.list)].Status = "available" THEN Decision("break", "none")
  ELSE Decision("sleep", "none")

\* a cluster waiter that takes an empty answer for "not there yet"
cluster_restored_retrying_empty(resp) ==
  IF resp.err THEN Decision("raise", "ClientError")
  ELSE IF resp.list = << >> THEN Decision("sleep", "none")
  ELSE IF resp.list[1].Status = "available" THEN Decision("break", "none")
  ELSE Decision("sleep", "none")

_is_cluster_restored(resp) ==
  IF resp.err THEN Decision("raise", "ClientError")
  ELSE IF resp.list = << >> THEN Decision("raise", "ValueError")
  ELSE IF resp.list[1].Status = "available" THEN Decision("break", "none")
  ELSE Decision("sleep", "none")

\* an instance waiter that takes an error of the describe call for "not ready"
instance_available_retrying_errors(resp) ==
  IF resp.err THEN Decision("sleep", "none")
  ELSE IF resp.list = << >> THEN Decision("raise", "ValueError")
  ELSE IF resp.list[1].DBInstanceStatus = "available" THEN Decision("break", "none")
  ELSE Decision("sleep", "none")

\* an instance waiter that gives up at its third poll
instance_available_giving_up(resp) ==
  IF resp.err THEN Decision("raise", "ClientError")
  ELSE IF resp.list = << >> THEN Decision("raise", "ValueError")
  ELSE IF resp.list[1].DBInstanceStatus = "available" THEN Decision("break", "none")
  ELSE IF Cardinality({ i \in DOMAIN calls : calls[i].call = "describe_db_instances" }) >= 2
       THEN Decision("raise", "TimeoutError")
  ELSE Decision("sleep", "none")

_is_instance_available(resp) ==
  IF resp.err THEN Decision("raise", "ClientError")
  ELSE IF resp.list = << >> THEN Decision("raise", "ValueError")
  ELSE IF resp.list[1].DBInstanceStatus = "available" THEN Decision("break", "none")
  ELSE Decision("sleep", "none")

----------------------------------------------------------------------------
(* find_snapshots_by_partial_name: the filter over a listing *)

\* Python values an entry of a listing may hold under its identifier key
PyStr(chars) == [type |-> "str", chars |-> chars]
PyNone == [type |-> "NoneType", chars |-> << >>]

ascii_uppercase ==
  << "A", "B", "C", "D", "E", "F", "G", "H", "I", "J", "K", "L", "M",
     "N", "O", "P", "Q", "R", "S", "T", "U", "V", "W", "X", "Y", "Z" >>

ascii_lowercase ==
  << "a", "b", "c", "d", "e", "f", "g", "h", "i", "j", "k", "l", "m",
     "n", "o", "p", "q", "r", "s", "t", "u", "v", "w", "x", "y", "z" >>

\* str.lower(), and a comparison that forgets to fold the case
lower_forgotten(chars) == chars

lower(chars) ==
  [i \in 1..Len(chars) |->
     IF \E k \in 1..26 : ascii_uppercase[k] = chars[i]
     THEN ascii_lowercase[CHOOSE k \in 1..26 : ascii_uppercase[k] = chars[i]]
     ELSE chars[i]]

\* a in b, on strings
str_in(a, b) ==
  \E i \in 0..(Len(b) - Len(a)) : SubSeq(b, i + 1, i + Len(a)) = a

\* the identifier key of the entries of each listing call
id_key(call) ==
  IF call = "describe_db_cluster_snapshots"
  THEN "DBClusterSnapshotIdentifier"
  ELSE "DBSnapshotIdentifier"

\* the for loop: snapshots collected so far, and whether an entry raised
RECURSIVE find_loop(_, _, _, _)
find_loop(entries, key, partial_name, snapshots) ==
  IF entries = << >> THEN [raised |-> FALSE, snapshots |-> snapshots]
  ELSE LET snapshot == Head(entries)
           snapshot_id == IF key \in DOMAIN snapshot THEN snapshot[key] ELSE PyStr(<< >>)
       IN IF snapshot_id.type # "str"
          THEN [raised |-> TRUE, snapshots |-> snapshots]
          ELSE IF str_in(lower(partial_name), lower(snapshot_id.chars))
               THEN find_loop(Tail(entries), key, partial_name, Append(snapshots, snapshot))
               ELSE find_loop(Tail(entries), key, partial_name, snapshots)

\* identifiers of listed snapshots and the partial names searched for
ListedIds == << << "p", "r", "-", "1" >>, << "d", "v", "-", "2" >>, << "P", "R", "-", "3" >> >>
PartialNames == { << "p", "r" >>, << "R", "-" >>, << "x" >>, << >> }

Entry(key, value) == [k \in { key } |-> value]

\* what a listing call can answer: it raises, or lists entries; an entry may
\* lack the identifier or hold None under it
ListingOutcomes(call) ==
  LET e(n) == Entry(id_key(call), PyStr(ListedIds[n]))
      bad == Entry(id_key(call), PyNone)
      bare == [Status |-> "available"]
  IN { Raises, Accepted,
       [err |-> FALSE, list |-> << e(1), e(2), e(3) >>],
       [err |-> FALSE, list |-> << e(3), bare, e(1) >>],
       [err |-> FALSE, list |-> << e(1), bad, e(3) >>] }

----------------------------------------------------------------------------
(* State *)

\* the state after RDS.__init__: a client for service 'rds', nothing invoked
Init ==
  /\ run = 0
  /\ op = [name |-> "__init__", args |-> [service_name |-> "rds"]]
  /\ todo = << >>
  /\ state = "idle"
  /\ calls = << >>
  /\ polls = 0
  /\ clock = 0
  /\ instance_name = None
  /\ result = NoValue
  /\ raised = "none"
  /\ remote = { }
  /\ observed = { }

\* one entry of the log of what the running method did on the client
Event(call, params, resp) == [call |-> call, params |-> params, resp |-> resp]

SleepEvent == Event("sleep", [seconds |-> SleepInterval], Accepted)

RECURSIVE ApplyEvents(_, _)
ApplyEvents(r, evs) ==
  IF evs = << >> THEN r
  ELSE ApplyEvents(RemoteEffect(r, Head(evs)), Tail(evs))

\* the step is over and the method goes on, or returns after its last step
Continue(ev, inst) ==
  /\ calls' = Append(calls, ev)
  /\ todo' = Tail(todo)
  /\ state' = IF Tail(todo) = << >> THEN "returned" ELSE "running"
  /\ result' = IF Tail(todo) = << >> THEN ReturnValue(op, inst) ELSE NoValue
  /\ raised' = "none"

\* the step raised: every enclosing except block logs and re-raises
Raise(ev, error) ==
  /\ calls' = Append(calls, ev) \o except_calls(op)
  /\ todo' = << >>
  /\ state' = "raised"
  /\ result' = NoValue
  /\ raised' = error

\* the caller invokes a public method
Invoke(name, args) ==
  /\ state \in { "idle", "returned", "raised" }
  /\ run < MaxOps
  /\ run' = run + 1
  /\ op' = [name |-> name, args |-> args]
  /\ todo' = Body(name, args)
  /\ state' = "running"
  /\ calls' = << >>
  /\ clock' = 0
  /\ instance_name' = None
  /\ result' = NoValue
  /\ raised' = "none"
  /\ UNCHANGED << polls, remote, observed >>

\* a mutating request: it is accepted or it raises
Request(step, call, params, inst) ==
  /\ state = "running"
  /\ Head(todo) = step
  /\ \E resp \in Outcomes :
       LET ev == Event(call, params, resp) IN
       IF resp.err /\ ~Swallows(step)
       THEN /\ Raise(ev, "ClientError")
            /\ remote' = ApplyEvents(remote, except_calls(op))
       ELSE /\ Continue(ev, inst)
            /\ remote' = RemoteEffect(remote, ev)
  /\ instance_name' = inst
  /\ UNCHANGED << run, op, polls, clock, observed >>

\* a loop that sleeps after every answered describe, the ready one included
Poll_sleeping_when_ready(step, call, params, resp, d) ==
  /\ state = "running"
  /\ Head(todo) = step
  /\ polls < MaxPolls
  /\ polls' = polls + 1
  /\ LET ev == Event(call, params, resp) IN
     CASE d.next = "break" ->
            /\ calls' = calls \o << ev, SleepEvent >>
            /\ clock' = clock + SleepInterval
            /\ todo' = Tail(todo)
            /\ state' = IF Tail(todo) = << >> THEN "returned" ELSE "running"
            /\ result' = IF Tail(todo) = << >> THEN ReturnValue(op, instance_name) ELSE NoValue
            /\ raised' = "none"
            /\ UNCHANGED remote
       [] d.next = "sleep" ->
            /\ calls' = calls \o << ev, SleepEvent >>
            /\ clock' = clock + SleepInterval
            /\ UNCHANGED << todo, state, result, raised, remote >>
       [] d.next = "raise" ->
            /\ Raise(ev, d.error)
            /\ remote' = ApplyEvents(remote, except_calls(op))
            /\ UNCHANGED clock
  /\ UNCHANGED << run, op, instance_name >>

\* one pass of a waiter's loop: describe, decide, and sleep when not ready
Poll(step, call, params, resp, d) ==
  /\ state = "running"
  /\ Head(todo) = step
  /\ polls < MaxPolls
  /\ polls' = polls + 1
  /\ LET ev == Event(call, params, resp) IN
     CASE d.next = "break" ->
            /\ Continue(ev, instance_name)
            /\ UNCHANGED << clock, remote >>
       [] d.next = "sleep" ->
            /\ calls' = calls \o << ev, SleepEvent >>
            /\ clock' = clock + SleepInterval
            /\ UNCHANGED << todo, state, result, raised, remote >>
       [] d.next = "raise" ->
            /\ Raise(ev, d.error)
            /\ remote' = ApplyEvents(remote, except_calls(op))
            /\ UNCHANGED clock
  /\ UNCHANGED << run, op, instance_name >>

----------------------------------------------------------------------------
(* The caller *)

InstanceNames == { format_instance_name(c, u) : c \in DbClusterIds, u \in UuidSeeds }

Call_create_rds_cluster_snapshot ==
  \E c \in DbClusterIds, s \in SnapshotIds, a \in AccountIds \cup { None } :
    Invoke("create_rds_cluster_snapshot",
           [cluster_id |-> c, snapshot_identifier |-> s, snapshot_shared_account |-> a])

Call_restore_rds_cluster_from_snapshot ==
  \E c \in DbClusterIds, s \in SnapshotIds, k \in KmsKeyIds \cup { None }, b \in BOOLEAN :
    Invoke("restore_rds_cluster_from_snapshot",
           [db_cluster_identifier |-> c, snapshot_identifier |-> s, engine |-> Engine,
            db_cluster_instance_class |-> InstanceClass, db_subnet_group |-> SubnetGroup,
            vpc_security_group_ids |-> SecurityGroupIds, kms_key_id |-> k,
            reset_master_password |-> b])

Call_create_db_instance ==
  \E c \in DbClusterIds :
    Invoke("create_db_instance",
           [db_name |-> c, instance_type |-> InstanceClass, engine |-> Engine])

Call_delete_db_instance ==
  \E i \in InstanceNames : Invoke("delete_db_instance", [instance_name |-> i])

Call_delete_rds_cluster ==
  \E c \in DbClusterIds : Invoke("delete_rds_cluster", [cluster_identifier |-> c])

Call_find_snapshots_by_partial_name ==
  \E p \in PartialNames, b \in BOOLEAN :
    Invoke("find_snapshots_by_partial_name", [partial_name |-> p, cluster |-> b])

----------------------------------------------------------------------------
(* The steps of the methods *)

\* create_rds_cluster_snapshot: self._rds_client.create_db_cluster_snapshot(...)
create_db_cluster_snapshot ==
  /\ op.name = "create_rds_cluster_snapshot"
  /\ Request("create_db_cluster_snapshot", "create_db_cluster_snapshot",
             [DBClusterIdentifier |-> op.args.cluster_id,
              DBClusterSnapshotIdentifier |-> op.args.snapshot_identifier],
             instance_name)

\* _is_cluster_snapshot_ready(snapshot_id=snapshot_identifier)
wait_cluster_snapshot_ready ==
  /\ \E resp \in DescribeStatusOutcomes :
       /\ Poll("_is_cluster_snapshot_ready", "describe_db_cluster_snapshots",
               [DBClusterSnapshotIdentifier |-> op.args.snapshot_identifier],
               resp, _is_cluster_snapshot_ready(resp))
       /\ observed' =
            IF ~resp.err /\ resp.list # << >> /\ resp.list[1].Status = "available"
            THEN observed \cup { op.args.snapshot_identifier }
            ELSE observed

\* _share_rds_snapshot(snapshot_id, destination_account_id)
share_rds_snapshot ==
  /\ op.name = "create_rds_cluster_snapshot"
  /\ Request("_share_rds_snapshot", "modify_db_cluster_snapshot_attribute",
             [DBClusterSnapshotIdentifier |-> op.args.snapshot_identifier,
              AttributeName |-> "restore",
              ValuesToAdd |-> << op.args.snapshot_shared_account >>],
             instance_name)

\* restore_rds_cluster_from_snapshot: rds.restore_db_cluster_from_snapshot(**params)
restore_db_cluster_from_snapshot ==
  /\ op.name = "restore_rds_cluster_from_snapshot"
  /\ Request("restore_db_cluster_from_snapshot", "restore_db_cluster_from_snapshot",
             restore_params(op.args), instance_name)

\* _is_cluster_restored(db_cluster_identifier=db_cluster_identifier)
wait_cluster_restored ==
  /\ op.name = "restore_rds_cluster_from_snapshot"
  /\ \E resp \in DescribeStatusOutcomes :
       Poll("_is_cluster_restored", "describe_db_clusters",
            [DBClusterIdentifier |-> op.args.db_cluster_identifier],
            resp, _is_cluster_restored(resp))
  /\ UNCHANGED observed

\* rds.modify_db_cluster(..., ManageMasterUserPassword=True, ApplyImmediately=True)
modify_db_cluster ==
  /\ op.name = "restore_rds_cluster_from_snapshot"
  /\ Request("modify_db_cluster", "modify_db_cluster",
             [DBClusterIdentifier |-> op.args.db_cluster_identifier,
              ManageMasterUserPassword |-> TRUE,
              ApplyImmediately |-> TRUE],
             instance_name)

\* create_db_instance: generate the name, self._rds_client.create_db_instance(...)
create_db_instance ==
  /\ op.name \in { "restore_rds_cluster_from_snapshot", "create_db_instance" }
  /\ \E seed \in UuidSeeds :
       LET p == instance_params(op)
           name == format_instance_name(p.db_name, seed)
       IN Request("create_db_instance", "create_db_instance",
                  [DBInstanceIdentifier |-> name,
                   DBInstanceClass |-> p.instance_type,
                   Engine |-> p.engine,
                   DBClusterIdentifier |-> p.db_name],
                  name)

\* _is_instance_available(db_instance_identifier=instance_name)
wait_instance_available ==
  /\ op.name \in { "restore_rds_cluster_from_snapshot", "create_db_instance" }
  /\ \E resp \in DescribeInstanceOutcomes :
       Poll("_is_instance_available", "describe_db_instances",
            [DBInstanceIdentifier |-> instance_name],
            resp, _is_instance_available(resp))
  /\ UNCHANGED observed

\* delete_db_instance: self._rds_client.delete_db_instance(..., SkipFinalSnapshot=True)
delete_db_instance ==
  /\ op.name = "delete_db_instance"
  /\ Request("delete_db_instance", "delete_db_instance",
             [DBInstanceIdentifier |-> op.args.instance_name,
              SkipFinalSnapshot |-> TRUE],
             instance_name)

\* delete_rds_cluster: rds.delete_db_cluster(..., SkipFinalSnapshot=True)
delete_db_cluster ==
  /\ op.name = "delete_rds_cluster"
  /\ Request("delete_db_cluster", "delete_db_cluster",
             [DBClusterIdentifier |-> op.args.cluster_identifier,
              SkipFinalSnapshot |-> TRUE],
             instance_name)

\* find_snapshots_by_partial_name: list, filter, and return what was collected;
\* the except block logs whatever was raised and does not re-raise
find_snapshots_by_partial_name ==
  /\ op.name = "find_snapshots_by_partial_name"
  /\ state = "running"
  /\ \E response \in ListingOutcomes(Head(todo)) :
       LET found == find_loop(response.list, id_key(Head(todo)), op.args.partial_name, << >>)
       IN /\ calls' = Append(calls, Event(Head(todo), [IncludeShared |-> TRUE], response))
          /\ result' = [kind |-> "list", value |-> found.snapshots]
  /\ todo' = << >>
  /\ state' = "returned"
  /\ raised' = "none"
  /\ UNCHANGED << run, op, polls, clock, instance_name, remote, observed >>

Next ==
  \/ Call_create_rds_cluster_snapshot
  \/ Call_restore_rds_cluster_from_snapshot
  \/ Call_create_db_instance
  \/ Call_delete_db_instance
  \/ Call_delete_rds_cluster
  \/ Call_find_snapshots_by_partial_name
  \/ create_db_cluster_snapshot
  \/ wait_cluster_snapshot_ready
  \/ share_rds_snapshot
  \/ restore_db_cluster_from_snapshot
  \/ wait_cluster_restored
  \/ modify_db_cluster
  \/ create_db_instance
  \/ wait_instance_available
  \/ delete_db_instance
  \/ delete_db_cluster
  \/ find_snapshots_by_partial_name

Spec == Init /\ [][Next]_vars

\* a session of a single call: the caller invokes one method on the new object
FirstCall ==
  /\ run = 0
  /\ \/ Call_create_rds_cluster_snapshot
     \/ Call_restore_rds_cluster_from_snapshot
     \/ Call_create_db_instance
     \/ Call_delete_db_instance
     \/ Call_delete_rds_cluster
     \/ Call_find_snapshots_by_partial_name

\* the steps of the method that is running
Step ==
  \/ create_db_cluster_snapshot
  \/ wait_cluster_snapshot_ready
  \/ share_rds_snapshot
  \/ restore_db_cluster_from_snapshot
  \/ wait_cluster_restored
  \/ modify_db_cluster
  \/ create_db_instance
  \/ wait_instance_available
  \/ delete_db_instance
  \/ delete_db_cluster
  \/ find_snapshots_by_partial_name

\* the methods are blocking, straight-line code: a running method takes its
\* next step, and a waiter that has slept polls again. What a wait does never
\* depends on the calls made before it, so one call is followed to its end.
FairSpec ==
  /\ Init /\ [][FirstCall \/ Step]_vars
  /\ WF_vars(wait_cluster_snapshot_ready)
  /\ WF_vars(wait_cluster_restored)
  /\ WF_vars(wait_instance_available)

TypeOK ==
  /\ run \in 0..MaxOps
  /\ state \in { "idle", "running", "returned", "raised" }
  /\ polls \in 0..MaxPolls
  /\ raised \in { "none", "ClientError", "ValueError" }

----------------------------------------------------------------------------
(* Reading the log *)

DescribeCalls ==
  { "describe_db_cluster_snapshots", "describe_db_clusters", "describe_db_instances" }

\* the step of the running method that polls with the given describe call
WaiterOf(call) ==
  CASE call = "describe_db_cluster_snapshots" -> "_is_cluster_snapshot_ready"
    [] call = "describe_db_clusters" -> "_is_cluster_restored"
    [] call = "describe_db_instances" -> "_is_instance_available"

\* the event is a poll of a waiter, not the listing of find_snapshots_by_partial_name
IsPoll(ev) == ev.call \in DescribeCalls /\ "IncludeShared" \notin DOMAIN ev.params

\* the poll answered with at least one description
NonEmpty(ev) == IsPoll(ev) /\ ~ev.resp.err /\ ev.resp.list # << >>

\* the poll answered with no description at all
Empty(ev) == IsPoll(ev) /\ ~ev.resp.err /\ ev.resp.list = << >>

\* the status string of the first description of a non-empty answer
StatusOf(ev) ==
  IF ev.call = "describe_db_instances"
  THEN ev.resp.list[1].DBInstanceStatus
  ELSE ev.resp.list[1].Status

\* the running method is still inside the waiter that polls with this call
WaitingOn(call) ==
  state = "running" /\ todo # << >> /\ Head(todo) = WaiterOf(call)

\* the log holds, before position i, a poll of call for id answered 'available'
SeenAvailable(call, key, id, i) ==
  \E j \in 1..(i - 1) :
    /\ NonEmpty(calls[j])
    /\ calls[j].call = call
    /\ calls[j].params[key] = id
    /\ StatusOf(calls[j]) = "available"

----------------------------------------------------------------------------
(* C1: in each of the three waiters a poll answered with a non-empty list   *)
(* ends the wait with success exactly when the first status is the string   *)
(* 'available'; after any other status (unknown, or cased differently such  *)
(* as 'Available') the waiter sleeps and polls again, however many of them  *)
(* came before.                                                             *)
C1_ExactAvailable ==
  \A i \in DOMAIN calls :
    NonEmpty(calls[i]) =>
      IF StatusOf(calls[i]) = "available"
      THEN /\ ~WaitingOn(calls[i].call)
           /\ \A k \in DOMAIN calls : k > i => calls[k].call # calls[i].call
           /\ i < Len(calls) => calls[i + 1].call # "sleep"
           /\ i = Len(calls) => state \in { "running", "returned" }
      ELSE /\ i < Len(calls)
           /\ calls[i + 1] = SleepEvent
           /\ IF i + 1 = Len(calls)
              THEN WaitingOn(calls[i].call)
              ELSE calls[i + 2].call = calls[i].call

\* the snapshot waiter saw 'failed', then 'Available', then 'available', and
\* only then did the snapshot operation return
C1_Witness ==
  /\ op.name = "create_rds_cluster_snapshot"
  /\ state = "returned"
  /\ Len(calls) >= 6
  /\ NonEmpty(calls[2]) /\ StatusOf(calls[2]) = "failed"
  /\ NonEmpty(calls[4]) /\ StatusOf(calls[4]) = "Available"
  /\ NonEmpty(calls[6]) /\ StatusOf(calls[6]) = "available"

(* C2: in any waiter a poll answered with zero descriptions, at the first   *)
(* or at a later poll, raises the not-found error to the caller at once: it *)
(* is the last thing the run does, with no describe and no sleep after it.  *)
C2_EmptyIsNotFound ==
  \A i \in DOMAIN calls :
    Empty(calls[i]) =>
      /\ i = Len(calls)
      /\ state = "raised"
      /\ raised = "ValueError"
      /\ result = NoValue

\* the cluster waiter got an empty answer at its second poll
C2_Witness ==
  /\ op.name = "restore_rds_cluster_from_snapshot"
  /\ state = "raised"
  /\ Len(calls) = 4
  /\ NonEmpty(calls[2])
  /\ calls[3] = SleepEvent
  /\ Empty(calls[4])

(* C3: in a workflow run no step is issued on a resource not yet observed   *)
(* ready: share follows an 'available' poll of that snapshot, modify-cluster*)
(* and create-instance of the restore follow an 'available' poll of the     *)
(* restored cluster, and a result is returned only after an 'available'     *)
(* poll of the created instance.                                            *)
C3_ReadyBeforeUse ==
  /\ \A i \in DOMAIN calls :
       /\ calls[i].call = "modify_db_cluster_snapshot_attribute" =>
            SeenAvailable("describe_db_cluster_snapshots", "DBClusterSnapshotIdentifier",
                          calls[i].params.DBClusterSnapshotIdentifier, i)
       /\ (op.name = "restore_rds_cluster_from_snapshot"
             /\ calls[i].call \in { "modify_db_cluster", "create_db_instance" }) =>
            SeenAvailable("describe_db_clusters", "DBClusterIdentifier",
                          calls[i].params.DBClusterIdentifier, i)
  /\ (op.name = "restore_rds_cluster_from_snapshot" /\ state = "returned") =>
       SeenAvailable("describe_db_instances", "DBInstanceIdentifier",
                     result.value[2], Len(calls) + 1)

\* a restore with credential rotation that ran to its result
C3_Witness ==
  /\ op.name = "restore_rds_cluster_from_snapshot"
  /\ op.args.reset_master_password
  /\ state = "returned"
  /\ \E i \in DOMAIN calls : calls[i].call = "modify_db_cluster"
  /\ \E i \in DOMAIN calls : calls[i].call = "create_db_instance"

\* the request failed and its failure is not absorbed, or a waiter's poll failed
Fatal(ev) ==
  \/ IsPoll(ev) /\ (ev.resp.err \/ ev.resp.list = << >>)
  \/ /\ ev.call \notin DescribeCalls \cup { "describe_db_snapshots" }
     /\ ev.call # "modify_db_cluster_snapshot_attribute"
     /\ ev.resp.err

\* the log holds this call
Issued(call) == \E i \in DOMAIN calls : calls[i].call = call

ShareFailed ==
  \E i \in DOMAIN calls :
    calls[i].call = "modify_db_cluster_snapshot_attribute" /\ calls[i].resp.err

C6_FailedIsAbsorbing ==
  [][ /\ (state = "raised" /\ run' = run) =>
           (state' = "raised" /\ calls' = calls /\ remote' = remote /\ result' = NoValue)
      /\ \A i \in DOMAIN calls' :
           Fatal(calls'[i]) =>
             /\ i = Len(calls')
             /\ state' = "raised"
             /\ raised' # "none"
             /\ todo' = << >>
             /\ calls'[i].call \in { "restore_db_cluster_from_snapshot", "describe_db_clusters" } =>
                  \A k \in DOMAIN calls' :
                    calls'[k].call \notin { "modify_db_cluster", "create_db_instance" }
    ]_vars

\* the cluster waiter of a restore failed after the restore was accepted
C6_Witness ==
  /\ op.name = "restore_rds_cluster_from_snapshot"
  /\ state = "raised"
  /\ Len(calls) >= 2
  /\ ~calls[1].resp.err
  /\ calls[Len(calls)].call = "describe_db_clusters"
  /\ Fatal(calls[Len(calls)])

(* C7: credential rotation is fatal when it fails: modify-cluster is issued *)
(* only when reset of the master password was requested and the cluster was *)
(* observed 'available'; when it raises, the restore raises that error to   *)
(* the caller and create-instance is never issued; when reset was not       *)
(* requested modify-cluster is never issued.                                *)
C7_RotationFailureIsFatal ==
  op.name = "restore_rds_cluster_from_snapshot" =>
    /\ ~op.args.reset_master_password => ~Issued("modify_db_cluster")
    /\ (op.args.reset_master_password /\ Issued("create_db_instance")) =>
         \E i \in DOMAIN calls : calls[i].call = "modify_db_cluster" /\ ~calls[i].resp.err
    /\ \A i \in DOMAIN calls :
         calls[i].call = "modify_db_cluster" =>
           /\ SeenAvailable("describe_db_clusters", "DBClusterIdentifier",
                            calls[i].params.DBClusterIdentifier, i)
           /\ calls[i].resp.err =>
                /\ i = Len(calls)
                /\ state = "raised"
                /\ raised = "ClientError"
                /\ result = NoValue
                /\ ~Issued("create_db_instance")

\* the rotation raised after the cluster became available
C7_Witness ==
  /\ op.name = "restore_rds_cluster_from_snapshot"
  /\ op.args.reset_master_password
  /\ state = "raised"
  /\ calls # << >>
  /\ calls[Len(calls)].call = "modify_db_cluster"
  /\ calls[Len(calls)].resp.err

HexChars == { HexDigits[i] : i \in DOMAIN HexDigits }

\* inst is parent, a hyphen, and five hexadecimal characters
InstanceForm(parent, inst) ==
  /\ Len(inst) = Len(parent) + 6
  /\ SubSeq(inst, 1, Len(parent)) = parent
  /\ inst[Len(parent) + 1] = "-"
  /\ \A k \in (Len(parent) + 2)..(Len(parent) + 6) : inst[k] \in HexChars

AcceptedCreates ==
  { "create_db_cluster_snapshot", "restore_db_cluster_from_snapshot", "create_db_instance" }

\* the resource an accepted create or restore request of the log brought about
Created(ev) ==
  CASE ev.call = "create_db_cluster_snapshot" ->
         [kind |-> "snapshot", id |-> ev.params.DBClusterSnapshotIdentifier]
    [] ev.call = "restore_db_cluster_from_snapshot" ->
         [kind |-> "cluster", id |-> ev.params.DBClusterIdentifier]
    [] ev.call = "create_db_instance" ->
         [kind |-> "instance", id |-> ev.params.DBInstanceIdentifier]

(* C9: no compensation: on every path of the snapshot, restore and          *)
(* create-instance operations, failure paths included, no delete-instance   *)
(* and no delete-cluster request is issued, and every resource whose create *)
(* or restore request the run had accepted is still in the remote system,   *)
(* in particular when the run has failed.                                   *)
C9_NoCompensation ==
  op.name \in { "create_rds_cluster_snapshot", "restore_rds_cluster_from_snapshot",
                "create_db_instance" } =>
    \A i \in DOMAIN calls :
      /\ calls[i].call \notin { "delete_db_instance", "delete_db_cluster" }
      /\ (calls[i].call \in AcceptedCreates /\ ~calls[i].resp.err) =>
           Created(calls[i]) \in remote

\* the restore failed in the instance wait: cluster and instance are left behind
C9_Witness ==
  /\ op.name = "restore_rds_cluster_from_snapshot"
  /\ state = "raised"
  /\ [kind |-> "cluster", id |-> op.args.db_cluster_identifier] \in remote
  /\ [kind |-> "instance", id |-> instance_name] \in remote
  /\ calls[Len(calls)].call = "describe_db_instances"

(* C10: a wait ends once the resource reaches a terminal status: when a     *)
(* poll reports the failure status 'failed' the waiter stops polling and    *)
(* reports failure, so the run is failed rather than still waiting.         *)
C10_FailedStatusEndsWait ==
  \A i \in DOMAIN calls :
    (NonEmpty(calls[i]) /\ StatusOf(calls[i]) = "failed") =>
      /\ i = Len(calls)
      /\ state = "raised"

\* the positions of the log at which the running method polled with this call
PollsOf(call) == { i \in DOMAIN calls : calls[i].call = call }

\* every poll of the wait so far was answered, non-empty, with another status
NeverReady(call) ==
  /\ PollsOf(call) # { }
  /\ \A i \in PollsOf(call) : NonEmpty(calls[i]) /\ StatusOf(calls[i]) # "available"

\* the running method is inside one of the three waiters
Waiting == \E c \in DescribeCalls : WaitingOn(c)

(* C11: polling is unbounded: as long as every poll of a wait succeeds,     *)
(* is non-empty and reports a status other than the target, the waiter has  *)
(* neither returned nor raised, however many polls it made, and the run is  *)
(* neither complete nor failed; a wait whose polls all succeeded, one of    *)
(* them reporting the target, is over with success; and a waiter never      *)
(* rests: it leaves the wait or polls again, up to the polls the model      *)
(* follows.                                                                 *)
C11_UnboundedPolling ==
  /\ [](\A c \in DescribeCalls :
          /\ NeverReady(c) =>
               /\ WaitingOn(c)
               /\ state = "running"
               /\ raised = "none"
               /\ result = NoValue
               /\ calls[Len(calls)] = SleepEvent
          /\ (/\ PollsOf(c) # { }
              /\ \A i \in PollsOf(c) : NonEmpty(calls[i])
              /\ \E i \in PollsOf(c) : StatusOf(calls[i]) = "available") =>
               /\ ~WaitingOn(c)
               /\ raised = "none" \/ calls[Len(calls)].call # c)
  /\ (Waiting /\ polls < MaxPolls) ~> (~Waiting \/ polls = MaxPolls)

\* a wait that used up the polls the model follows and is still not over
C11_Witness ==
  /\ op.name = "create_rds_cluster_snapshot"
  /\ NeverReady("describe_db_cluster_snapshots")
  /\ Cardinality(PollsOf("describe_db_cluster_snapshots")) = MaxPolls
  /\ state = "running"

MutatingCalls ==
  { "create_db_cluster_snapshot", "modify_db_cluster_snapshot_attribute",
    "restore_db_cluster_from_snapshot", "modify_db_cluster", "create_db_instance",
    "delete_db_instance", "delete_db_cluster" }

(* C12: every mutating operation issues its remote call at most once per    *)
(* invocation; when the call of create-snapshot, restore, modify-cluster,   *)
(* create-instance, delete-instance or delete-cluster raises, the run       *)
(* raises that error to the caller at once; share is the only mutating call *)
(* whose failure leaves the run unfailed.                                   *)
C12_OnceAndFailLoud ==
  /\ \A m \in MutatingCalls : Cardinality(PollsOf(m)) <= 1
  /\ \A i \in DOMAIN calls :
       (calls[i].call \in MutatingCalls /\ calls[i].resp.err) =>
         IF calls[i].call = "modify_db_cluster_snapshot_attribute"
         THEN state # "raised" /\ raised = "none"
         ELSE /\ i = Len(calls)
              /\ state = "raised"
              /\ raised = "ClientError"
              /\ result = NoValue

\* delete_rds_cluster raised the error of its only request
C12_Witness ==
  /\ op.name = "delete_rds_cluster"
  /\ state = "raised"
  /\ Len(calls) = 1
  /\ calls[1].call = "delete_db_cluster"
  /\ calls[1].resp.err

(* C13: the delete operations are fire-and-forget: delete-instance and      *)
(* delete-cluster each issue exactly one delete request, for the id given   *)
(* and with SkipFinalSnapshot = True, and are over with it: they return     *)
(* None as soon as it is accepted, with no describe call and no sleep.      *)
C13_DeleteFireAndForget ==
  op.name \in { "delete_db_instance", "delete_rds_cluster" } =>
    /\ Len(calls) <= 1
    /\ clock = 0
    /\ state = "running" <=> calls = << >>
    /\ calls # << >> =>
         /\ calls[1].params.SkipFinalSnapshot = TRUE
         /\ IF op.name = "delete_db_instance"
            THEN /\ calls[1].call = "delete_db_instance"
                 /\ calls[1].params.DBInstanceIdentifier = op.args.instance_name
            ELSE /\ calls[1].call = "delete_db_cluster"
                 /\ calls[1].params.DBClusterIdentifier = op.args.cluster_identifier
         /\ state = (IF calls[1].resp.err THEN "raised" ELSE "returned")
         /\ result = NoValue

\* delete_db_instance returned after its one accepted request
C13_Witness ==
  /\ op.name = "delete_db_instance"
  /\ state = "returned"
  /\ Len(calls) = 1
  /\ ~calls[1].resp.err

----------------------------------------------------------------------------
(* Reading a run of find_snapshots_by_partial_name *)

Finding == op.name = "find_snapshots_by_partial_name"

\* the listing call a finished find run made, and the key of its entries
ListingCall == IF op.args.cluster THEN "describe_db_cluster_snapshots" ELSE "describe_db_snapshots"
ListingKey == IF op.args.cluster THEN "DBClusterSnapshotIdentifier" ELSE "DBSnapshotIdentifier"

\* two characters that are the same letter, whatever their case
SameLetter(a, b) ==
  \/ a = b
  \/ \E k \in 1..26 : { a, b } = { ascii_uppercase[k], ascii_lowercase[k] }

\* part occurs in whole as a substring, letters compared without their case
ContainsIgnoringCase(whole, part) ==
  \E start \in 1..(Len(whole) - Len(part) + 1) :
    \A k \in 1..Len(part) : SameLetter(whole[start + k - 1], part[k])

\* the entry carries a string under the identifier key
HasIdentifier(entry) == ListingKey \in DOMAIN entry /\ entry[ListingKey].type = "str"

\* the listing as the control plane gives it: every entry has its identifier
WellFormed(listing) == \A n \in 1..Len(listing) : HasIdentifier(listing[n])

\* C14: a finished find run made exactly one remote call, the cluster-level
\* listing when cluster is true and the instance-level listing otherwise, and
\* no mutating call; when the listing was answered with entries that all
\* carry their identifier, the result is the listing restricted to the
\* entries whose identifier contains the partial name as a substring, case
\* ignored: each such entry once, in the order of the listing.
C14_FindReturnsMatchesInOrder ==
  (Finding /\ state # "running") =>
    /\ state = "returned"
    /\ Len(calls) = 1
    /\ calls[1].call = ListingCall
    /\ calls[1].params = [IncludeShared |-> TRUE]
    /\ \A i \in 1..Len(calls) : calls[i].call \notin MutatingCalls
    /\ (~calls[1].resp.err /\ WellFormed(calls[1].resp.list)) =>
         LET Matches(entry) == ContainsIgnoringCase(entry[ListingKey].chars, op.args.partial_name)
         IN /\ result.kind = "list"
            /\ result.value = SelectSeq(calls[1].resp.list, Matches)

\* the example of the specification: 'pr' over pr-1, dv-2, PR-3 at cluster
\* level gives the first and the third
C14_Witness ==
  /\ Finding /\ state = "returned"
  /\ op.args.cluster /\ op.args.partial_name = << "p", "r" >>
  /\ Len(calls) = 1 /\ ~calls[1].resp.err /\ Len(calls[1].resp.list) = 3
  /\ WellFormed(calls[1].resp.list)
  /\ result.value = << calls[1].resp.list[1], calls[1].resp.list[3] >>

\* processing the entry raises: what it holds under the identifier key is
\* no string
EntryRaises(entry) == ListingKey \in DOMAIN entry /\ entry[ListingKey].type # "str"

\* C15: when the listing call raises, or the processing of a listed entry
\* raises part-way through the listing, find returns to its caller without
\* raising and what it returns is the empty sequence, never the matches
\* collected before the failure.
C15_FailureYieldsEmpty ==
  (/\ Finding /\ state # "running"
   /\ \/ calls[1].resp.err
      \/ \E n \in 1..Len(calls[1].resp.list) : EntryRaises(calls[1].resp.list[n])) =>
    /\ state = "returned"
    /\ raised = "none"
    /\ result = [kind |-> "list", value |-> << >>]

----------------------------------------------------------------------------
\* C16: when the describe call of a waiter raises, at whichever poll, that
\* poll is the last event of the run (no further describe call, no sleep,
\* no later step), the run has raised that same error to its caller and
\* nothing is left to do or returned.
C16_DescribeErrorAbortsRun ==
  \A i \in 1..Len(calls) :
    (IsPoll(calls[i]) /\ calls[i].resp.err) =>
      /\ i = Len(calls)
      /\ state = "raised"
      /\ raised = "ClientError"
      /\ todo = << >>
      /\ result = NoValue

\* a restore whose instance waiter slept once and whose second describe raised
C16_Witness ==
  /\ op.name = "restore_rds_cluster_from_snapshot"
  /\ state = "raised"
  /\ Len(calls) > 2
  /\ calls[Len(calls)].call = "describe_db_instances" /\ calls[Len(calls)].resp.err
  /\ calls[Len(calls) - 1] = SleepEvent
  /\ calls[Len(calls) - 2].call = "describe_db_instances"

----------------------------------------------------------------------------
\* the run finished and none of its remote calls raised
NoStepFailed ==
  /\ state = "returned"
  /\ \A i \in 1..Len(calls) : calls[i].call = "sleep" \/ ~calls[i].resp.err

\* the mutating calls of the log, by name, in the order they were issued
MutatingSequence ==
  LET IsMutating(ev) == ev.call \in MutatingCalls
      issued == SelectSeq(calls, IsMutating)
  IN [i \in 1..Len(issued) |-> issued[i].call]

\* the request whose outcome the describe call is polled for
RequestBefore(call) ==
  CASE call = "describe_db_cluster_snapshots" -> "create_db_cluster_snapshot"
    [] call = "describe_db_clusters" -> "restore_db_cluster_from_snapshot"
    [] call = "describe_db_instances" -> "create_db_instance"

----------------------------------------------------------------------------
\* the poll ends its wait: it raised, was answered with nothing, or reports
\* 'available'
EndsWait(ev) ==
  IsPoll(ev) /\ (ev.resp.err \/ ev.resp.list = << >> \/ StatusOf(ev) = "available")

\* the sleeps of the log among the given positions
SleepsIn(positions) == { i \in positions : calls[i].call = "sleep" }

\* C18: within one wait polls and sleeps alternate. A sleep lasts 60, comes
\* directly after a poll that did not end the wait and is followed by
\* nothing but the next poll of the same wait; a poll that did not end the
\* wait is directly followed by one sleep; a poll that ends the wait
\* (success, not-found or error) is not followed by a sleep; so the first
\* describe call of a wait has no sleep before it, and a wait that ends at
\* its n-th poll has made n describe calls and n-1 sleeps. The time slept in
\* a run is 60 for each sleep.
C18_PollsAndSleepsAlternate ==
  /\ \A i \in 1..Len(calls) :
       /\ calls[i].call = "sleep" =>
            /\ calls[i].params.seconds = 60
            /\ i > 1
            /\ IsPoll(calls[i - 1]) /\ ~EndsWait(calls[i - 1])
            /\ IF i = Len(calls)
               THEN WaitingOn(calls[i - 1].call)
               ELSE /\ IsPoll(calls[i + 1])
                    /\ calls[i + 1].call = calls[i - 1].call
                    /\ calls[i + 1].params = calls[i - 1].params
       /\ IsPoll(calls[i]) =>
            /\ ~EndsWait(calls[i]) => (i < Len(calls) /\ calls[i + 1].call = "sleep")
            /\ EndsWait(calls[i]) =>
                 /\ i = Len(calls) \/ calls[i + 1].call # "sleep"
                 /\ LET first == CHOOSE f \in PollsOf(calls[i].call) :
                                   \A g \in PollsOf(calls[i].call) : f <= g
                        n == Cardinality(PollsOf(calls[i].call))
                    IN /\ \A g \in PollsOf(calls[i].call) : g <= i
                       /\ Cardinality(SleepsIn(first..i)) = n - 1
                       /\ first = 1 \/ calls[first - 1].call # "sleep"
  /\ clock = 60 * Cardinality(SleepsIn(1..Len(calls)))

\* an instance wait that succeeded at its third poll: three describe calls
\* with a sleep between each two and none after the last
C18_Witness ==
  /\ state = "returned"
  /\ Cardinality(PollsOf("describe_db_instances")) = 3
  /\ Cardinality(SleepsIn(1..Len(calls))) = 2
  /\ EndsWait(calls[Len(calls)])
  /\ StatusOf(calls[Len(calls)]) = "available"
  /\ clock = 120

----------------------------------------------------------------------------
----------------------------------------------------------------------------
\* the one identifier the waiter polling with this call was given
WaitTarget(call) ==
  CASE call = "describe_db_cluster_snapshots" ->
         [DBClusterSnapshotIdentifier |-> op.args.snapshot_identifier]
    [] call = "describe_db_clusters" ->
         [DBClusterIdentifier |-> op.args.db_cluster_identifier]
    [] call = "describe_db_instances" ->
         [DBInstanceIdentifier |-> instance_name]

\* what a step taken inside a wait adds to the log
Added == SubSeq(calls', Len(calls) + 1, Len(calls'))

\* C20: waiting is read-only and targeted. Every poll of a waiter is a
\* describe call for the one identifier the waiter was given, and between
\* the first and the last poll of a wait the log holds nothing but those
\* polls and sleeps; a step taken while a waiter is running adds only such
\* describe calls and sleeps to the log and leaves the remote system as it
\* was; and a poll answered with several descriptions is decided by the first
\* one alone: the wait sleeps and goes on exactly when the first description
\* is not 'available', whatever the others say.
C20_WaitIsReadOnlyAndTargeted ==
  /\ [](\A i \in 1..Len(calls) :
          IsPoll(calls[i]) =>
            /\ calls[i].params = WaitTarget(calls[i].call)
            /\ \A j \in PollsOf(calls[i].call) :
                 \A k \in i..j : calls[k].call \in { calls[i].call, "sleep" }
            /\ NonEmpty(calls[i]) =>
                 /\ StatusOf(calls[i]) # "available" <=>
                      (i < Len(calls) /\ calls[i + 1] = SleepEvent)
                 /\ StatusOf(calls[i]) = "available" =>
                      ~(i = Len(calls) /\ state = "raised"))
  /\ [][\A c \in DescribeCalls :
          WaitingOn(c) =>
            /\ remote' = remote
            /\ \A k \in 1..Len(Added) :
                 \/ Added[k] = SleepEvent
                 \/ Added[k].call = c /\ Added[k].params = WaitTarget(c)]_vars

\* a restore whose cluster waiter was answered with two descriptions twice:
\* (creating, available), on which it slept, then (available, failed), on
\* which it went on to the next step
C20_Witness ==
  /\ op.name = "restore_rds_cluster_from_snapshot"
  /\ Len(calls) >= 4
  /\ calls[2].call = "describe_db_clusters"
  /\ NonEmpty(calls[2]) /\ Len(calls[2].resp.list) = 2
  /\ calls[2].resp.list[2].Status = "available"
  /\ calls[3] = SleepEvent
  /\ calls[4].call = "describe_db_clusters"
  /\ NonEmpty(calls[4]) /\ Len(calls[4].resp.list) = 2
  /\ calls[4].resp.list[2].Status = "failed"
  /\ ~WaitingOn("describe_db_clusters")
  /\ state = "running"

====
